---- MODULE Spec2Model ----
(***************************************************************************)
(* Minor star-allele refinement of aldy (aldy/minor.py): estimate_minor    *)
(* and solve_minor_model.  The integer program built by solve_minor_model  *)
(* is modelled by its 0/1 variables A, MPRESENT, MADD; the free error      *)
(* variables E[m] are determined by the equality constraints and are       *)
(* computed.  All coverage fractions are kept as integers by multiplying   *)
(* them (and the score) by SingleCopy, the read depth of one gene copy.    *)
(***************************************************************************)
EXTENDS Integers, Sequences, FiniteSets, TLC

\* ------------------------------------------------------------ parameters
MISS_PENALTY_FACTOR == 2

ADD_PENALTY_FACTOR == 1

\* largest copy count a major solution gives to one allele key
MaxCN == 2

\* longest list of major solutions handed to estimate_minor
MaxSols == 2

\* reads of one gene copy: coverage.single_copy(pos, cn_solution)
SingleCopy == 2

\* ------------------------------------------------------------ mutations
Mut(p, o) == [pos |-> p, op |-> o]

MF == Mut(100, "SNP.AT")

MG == Mut(200, "SNP.CG")

MN == Mut(300, "SNP.GA")

MX == Mut(100, "SNP.AC")

MI == Mut(100, "INS.T")

Mutations == {MF, MG, MN, MX, MI}

\* Mutation(pos, '_'): the reference marker of a position
RefMut(p) == Mut(p, "_")

\* m.is_functional
is_functional(m) == m \in {MF, MG}

\* m[1][:3]: the first three characters of the operation
OpPrefix(m) ==
  CASE m.op = "INS.T" -> "INS"
    [] m.op = "_" -> "_"
    [] OTHER -> "SNP"

\* rank of the operation strings under Python's string order
OpRank(o) ==
  CASE o = "INS.T" -> 1
    [] o = "SNP.AC" -> 2
    [] o = "SNP.AT" -> 3
    [] o = "SNP.CG" -> 4
    [] o = "SNP.GA" -> 5
    [] OTHER -> 6

\* tuple order of Mutation: position, then operation
MutLess(m1, m2) ==
  \/ m1.pos < m2.pos
  \/ m1.pos = m2.pos /\ OpRank(m1.op) < OpRank(m2.op)

Range(s) == {s[i] : i \in 1..Len(s)}

RECURSIVE SumSeq(_)
\* the sum of a tuple of numbers (model.quicksum)
SumSeq(s) == IF s = <<>> THEN 0 ELSE Head(s) + SumSeq(Tail(s))

MinMut(S) == CHOOSE m \in S : \A n \in S : n = m \/ MutLess(m, n)

RECURSIVE SortedMuts(_)
\* sorted(S) for a set of mutations, as a tuple
SortedMuts(S) ==
  IF S = {} THEN <<>>
  ELSE <<MinMut(S)>> \o SortedMuts(S \ {MinMut(S)})

\* ------------------------------------------------------------ alleles
SolvedAllele(ma, mi, ad, ms) ==
  [major |-> ma, minor |-> mi, added |-> ad, missing |-> ms]

\* the major-level key of a candidate: SolvedAllele(major, None, added, missing)
MajorKey(a) == SolvedAllele(a.major, "None", a.added, a.missing)

Minor(n, muts) == [name |-> n, neutral_muts |-> muts]

\* ------------------------------------------------------------ inputs
Majors == {"1", "2"}

\* rank of the major allele names under Python's string order
MajorRank(ma) == IF ma = "1" THEN 1 ELSE 2

\* the gene catalog: per major allele its functional mutations and its minor
\* alleles (in dictionary order); nocov holds the (major, position) pairs for
\* which gene.has_coverage is false
GeneOf(minors1, func2, neutral2, nc) ==
  [alleles |-> [ma \in Majors |->
                   IF ma = "1"
                   THEN [func_muts |-> {}, minors |-> minors1]
                   ELSE [func_muts |-> func2,
                         minors |-> <<Minor("2", neutral2)>>]],
   nocov |-> nc]

Minors1Options ==
  { <<Minor("1B", {MN})>>, <<Minor("1B", {MI})>>,
    <<Minor("1", {}), Minor("1B", {MN})>> }

Func2Options == { {MF}, {MF, MG} }

Neutral2Options == { {}, {MX}, {MI} }

NoCovOptions == { {<<"2", 200>>}, {<<"2", 300>>}, {<<"1", 100>>} }

\* the genes with coverage everywhere, and genes with a deleted region
Genes ==
  { GeneOf(m1, f2, n2, {}) :
      m1 \in Minors1Options, f2 \in Func2Options, n2 \in Neutral2Options }
  \cup
  { GeneOf(<<Minor("1B", {MN})>>, f2, {}, nc) :
      f2 \in Func2Options, nc \in NoCovOptions }

\* gene.has_coverage(major, pos)
has_coverage(gene, ma, p) == <<ma, p>> \notin gene.nocov

K1 == SolvedAllele("1", "None", <<>>, <<>>)

K2 == SolvedAllele("2", "None", <<>>, <<>>)

\* major allele 2 with the novel mutation MN added by the major solution
K2a == SolvedAllele("2", "None", <<MN>>, <<>>)

Item(k, n) == [key |-> k, cnt |-> n]

\* a MajorSolution: solution is the dictionary as its items in insertion
\* order; cn2 is cn_solution.position_cn in half copies (the same at every
\* position)
MajorSolution(items, c2) == [solution |-> items, cn2 |-> c2]

\* the copy number of the gene, in half copies: the counts sum to it
GeneCn2(items) == 2 * SumSeq([i \in 1..Len(items) |-> items[i].cnt])

SolutionOptions ==
  { <<Item(K1, n)>> : n \in 1..MaxCN } \cup
  { <<Item(K2, 1)>>, <<Item(K2a, 1)>>, <<Item(K1, 1), Item(K2, 1)>>,
    <<Item(K2, 1), Item(K1, 1)>>, <<Item(K1, 0), Item(K2, 1)>> }

Positions == {m.pos : m \in Mutations}

\* a coverage snapshot: the variant mutations of seen have the reads of one
\* copy, every reference marker has r reads
CoverageOf(seen, r) ==
  [m \in Mutations \cup {RefMut(p) : p \in Positions} |->
     IF m.op = "_" THEN r ELSE IF m \in seen THEN SingleCopy ELSE 0]

SeenOptions == { {}, {MF}, {MN}, {MF, MG}, {MI, MN} }

Coverages ==
  { CoverageOf(seen, r) : seen \in SeenOptions, r \in {0, 1, SingleCopy} }

Solvers == {"scip", "gurobi"}

InputOf(g, c, sols, sv) ==
  [gene |-> g, coverage |-> c, major_sols |-> sols, solver |-> sv]

\* one major solution, every gene and coverage
SingleInputs ==
  { InputOf(g, c, <<MajorSolution(s, GeneCn2(s))>>, sv) :
      g \in Genes, c \in Coverages, s \in SolutionOptions, sv \in Solvers }

\* lists of two up to MaxSols major solutions, with the position copy number
\* of the gene or of half a copy
BatchGenes ==
  { GeneOf(<<Minor("1", {}), Minor("1B", {MN})>>, {MF}, n2, {}) :
      n2 \in {{}, {MX}} }

BatchSolutions ==
  { MajorSolution(s, IF half THEN 1 ELSE GeneCn2(s)) :
      s \in { <<Item(K1, 1)>>, <<Item(K1, MaxCN)>>, <<Item(K2, 1)>>,
              <<Item(K1, 1), Item(K2, 1)>> },
      half \in BOOLEAN }

BatchInputs ==
  { InputOf(g, CoverageOf({MN}, SingleCopy), sols, "gurobi") :
      g \in BatchGenes,
      sols \in UNION { [1..n -> BatchSolutions] : n \in 2..MaxSols } }

Inputs == SingleInputs \cup BatchInputs

\* ------------------------------------------------------------ estimate_minor
RECURSIVE Flatten(_)
\* concatenation of a tuple of tuples
Flatten(ss) == IF ss = <<>> THEN <<>> ELSE Head(ss) \o Flatten(Tail(ss))

\* [SolvedAllele(ma, mi, added, tuple()) for mi in gene.alleles[ma].minors]
ItemCandidates(gene, it) ==
  LET ms == gene.alleles[it.key.major].minors
  IN [i \in 1..Len(ms) |->
        SolvedAllele(it.key.major, ms[i].name, it.key.added, <<>>)]

\* the candidates of all major solutions, in the order they are appended
AllelesList(gene, sols) ==
  Flatten([i \in 1..Len(sols) |->
             Flatten([j \in 1..Len(sols[i].solution) |->
                        ItemCandidates(gene, sols[i].solution[j])])])

ItemMutations(gene, it) ==
  LET al == gene.alleles[it.key.major]
  IN al.func_muts \cup Range(it.key.added) \cup
     UNION {al.minors[i].neutral_muts : i \in 1..Len(al.minors)}

\* the major and minor mutations of all major solutions together
MutationsOf(gene, sols) ==
  UNION {UNION {ItemMutations(gene, sols[i].solution[j]) :
                   j \in 1..Len(sols[i].solution)} :
           i \in 1..Len(sols)}

RECURSIVE TupleLess(_, _)
\* Python's order of two tuples of mutations
TupleLess(s, t) ==
  IF s = <<>> THEN t # <<>>
  ELSE IF t = <<>> THEN FALSE
  ELSE IF Head(s) = Head(t) THEN TupleLess(Tail(s), Tail(t))
  ELSE MutLess(Head(s), Head(t))

\* order of two major-level keys (their minor is None in both)
KeyLess(k1, k2) ==
  \/ MajorRank(k1.major) < MajorRank(k2.major)
  \/ /\ k1.major = k2.major
     /\ \/ TupleLess(k1.added, k2.added)
        \/ k1.added = k2.added /\ TupleLess(k1.missing, k2.missing)

ItemLess(i1, i2) ==
  KeyLess(i1.key, i2.key) \/ (i1.key = i2.key /\ i1.cnt < i2.cnt)

RECURSIVE ItemsLess(_, _)
\* order of list(s.solution.items()) of two major solutions
ItemsLess(s, t) ==
  IF s = <<>> THEN t # <<>>
  ELSE IF t = <<>> THEN FALSE
  ELSE IF Head(s) = Head(t) THEN ItemsLess(Tail(s), Tail(t))
  ELSE ItemLess(Head(s), Head(t))

RECURSIVE InsertSorted(_, _)
\* x goes before the first element whose key is greater (a stable sort)
InsertSorted(x, s) ==
  IF s = <<>> THEN <<x>>
  ELSE IF ItemsLess(x.solution, Head(s).solution) THEN <<x>> \o s
  ELSE <<Head(s)>> \o InsertSorted(x, Tail(s))

RECURSIVE SortedSols(_)
\* sorted(major_sols, key=lambda s: list(s.solution.items()))
SortedSols(sols) ==
  IF sols = <<>> THEN <<>>
  ELSE InsertSorted(sols[Len(sols)], SortedSols(SubSeq(sols, 1, Len(sols) - 1)))

\* ------------------------------------------------------------ solve_minor_model
HasKey(major_sol, k) ==
  \E i \in 1..Len(major_sol.solution) : major_sol.solution[i].key = k

\* major_sol.solution[k]
SolutionCount(major_sol, k) ==
  major_sol.solution[CHOOSE i \in 1..Len(major_sol.solution) :
                       major_sol.solution[i].key = k].cnt

RECURSIVE Dedup(_, _)
\* the keys of a dictionary filled from the tuple s, in insertion order
Dedup(s, acc) ==
  IF s = <<>> THEN acc
  ELSE Dedup(Tail(s), IF Head(s) \in Range(acc) THEN acc ELSE Append(acc, Head(s)))

\* the mutations a candidate is defined by
DefiningMuts(gene, a) ==
  LET al == gene.alleles[a.major]
      mi == CHOOSE i \in 1..Len(al.minors) : al.minors[i].name = a.minor
  IN al.func_muts \cup al.minors[mi].neutral_muts \cup Range(a.added)

Instance(gene, a, c) == [a |-> a, cnt |-> c, muts |-> DefiningMuts(gene, a)]

\* the line 176 lookup fails for a candidate whose key is not in major_sol
MaxCnKeyError(alleles_list, major_sol) ==
  \E i \in 1..Len(alleles_list) : ~HasKey(major_sol, MajorKey(alleles_list[i]))

\* the dictionary alleles as the tuple of its entries, in insertion order:
\* copy 0 of every candidate, then the further copies of each candidate
AllelesDict(gene, alleles_list, major_sol) ==
  LET base == Dedup(alleles_list, <<>>)
  IN [i \in 1..Len(base) |-> Instance(gene, base[i], 0)] \o
     Flatten([i \in 1..Len(base) |->
                [c \in 1..(SolutionCount(major_sol, MajorKey(base[i])) - 1) |->
                   Instance(gene, base[i], c)]])

\* the mutations for which MADD[inst][m] is created
MADDKeys(gene, mutations, inst) ==
  {m \in mutations :
     has_coverage(gene, inst.a.major, m.pos) /\ m \notin inst.muts}

\* [m for m in alleles[a] if m.pos == pos and m[1][:3] != 'INS']
present_muts(inst, p) ==
  {m \in inst.muts : m.pos = p /\ OpPrefix(m) # "INS"}

\* assert(len(present_muts) < 2) fails for some position and instance
PresentMutsAssertFails(gene, mutations, alleles) ==
  \E p \in {m.pos : m \in mutations}, i \in 1..Len(alleles) :
     /\ has_coverage(gene, alleles[i].a.major, p)
     /\ Cardinality(present_muts(alleles[i], p)) >= 2

\* MADD[a][m] is read for an instance that does not define m and has no
\* such variable
MADDLookupFails(gene, mutations, alleles, m) ==
  \E i \in 1..Len(alleles) :
     m \notin alleles[i].muts /\ m \notin MADDKeys(gene, mutations, alleles[i])

\* rule 3 reads MADD[a][m] of every functional mutation
Rule3KeyError(gene, mutations, alleles) ==
  \E m \in mutations :
     is_functional(m) /\ MADDLookupFails(gene, mutations, alleles, m)

Min(a, b) == IF a <= b THEN a ELSE b

Abs(x) == IF x < 0 THEN 0 - x ELSE x

\* all reads at a position (every mutation and the reference marker)
TotalCoverage(coverage, p) ==
  LET ms == SortedMuts({m \in DOMAIN coverage : m.pos = p})
  IN SumSeq([i \in 1..Len(ms) |-> coverage[ms[i]]])

\* int(exp_cn * m_cn), exp_cn = coverage.percentage(m) / 100.0 and
\* m_cn = cn2 / 2
ExpressedCn(coverage, m, cn2) ==
  LET total == TotalCoverage(coverage, m.pos)
  IN IF total = 0 THEN 0 ELSE (coverage[m] * cn2) \div (2 * total)

\* the advisory bounds lo, hi of rule 5, in half copies
CnBounds(coverage, m, cn2) ==
  LET x == ExpressedCn(coverage, m, cn2)
  IN IF cn2 = 0 THEN [lo2 |-> 0, hi2 |-> 0]
     ELSE IF coverage[m] > 0 /\ x = 0 THEN [lo2 |-> 2, hi2 |-> 2]
     ELSE [lo2 |-> 2 * x, hi2 |-> Min(2 * (x + 1), cn2)]

\* assert(lo >= 0) or assert(hi <= m_cn) fails
CnAssertFails(coverage, m, cn2) ==
  LET b == CnBounds(coverage, m, cn2)
  IN ~(b.lo2 >= 0) \/ ~(b.hi2 <= cn2)

\* the faults the rule 5 loop can end with: it visits the set mutations in
\* an order the program does not fix, and stops at the first mutation whose
\* MADD lookup or assertion fails
Rule5Faults(gene, coverage, major_sol, mutations, alleles) ==
  { IF MADDLookupFails(gene, mutations, alleles, m)
    THEN "KeyError" ELSE "AssertionError" :
      m \in {n \in mutations :
               \/ MADDLookupFails(gene, mutations, alleles, n)
               \/ CnAssertFails(coverage, n, major_sol.cn2)} }

\* the faults that can end the construction of the model ({} when it is built)
BuildFaults(gene, alleles_list, coverage, major_sol, mutations) ==
  IF MaxCnKeyError(alleles_list, major_sol) THEN {"KeyError"}
  ELSE LET alleles == AllelesDict(gene, alleles_list, major_sol)
       IN IF PresentMutsAssertFails(gene, mutations, alleles)
          THEN {"AssertionError"}
          ELSE IF Rule3KeyError(gene, mutations, alleles) THEN {"KeyError"}
          ELSE Rule5Faults(gene, coverage, major_sol, mutations, alleles)

\* ---- the variables of one instance: sel is A[inst], P the mutations m with
\* MPRESENT[inst][m] = 1 and D those with MADD[inst][m] = 1
Value(s, p, d) == [sel |-> s, P |-> p, D |-> d]

\* v <= A[a] for every MPRESENT and MADD variable of the instance
BoundedByA(c) == c.sel = 0 => (c.P = {} /\ c.D = {})

\* Rule1 with <= for ==
Rule1_AtMost(inst, c) ==
  LET p == {m \in inst.muts : is_functional(m)}
  IN p # {} => Cardinality(c.P \cap p) <= Cardinality(p) * c.sel

\* rule 1: sum of the functional MPRESENT == len(p) * A[a]
Rule1(inst, c) ==
  LET p == {m \in inst.muts : is_functional(m)}
  IN p # {} => Cardinality(c.P \cap p) = Cardinality(p) * c.sel

\* rule 2: MPRESENT <= 0 where the major allele has no coverage
Rule2(gene, inst, c) ==
  \A m \in inst.muts : ~has_coverage(gene, inst.a.major, m.pos) => m \notin c.P

\* rule 3: the MADD variables of a functional mutation sum to <= 0
Rule3(mutations, c) ==
  \A m \in mutations : is_functional(m) => m \notin c.D

\* the values of one instance's variables that meet its own constraints
Choices(gene, mutations, inst) ==
  { c \in { Value(s, p, d) :
              s \in {0, 1}, p \in SUBSET inst.muts,
              d \in SUBSET MADDKeys(gene, mutations, inst) } :
      /\ BoundedByA(c)
      /\ Rule1(inst, c)
      /\ Rule2(gene, inst, c)
      /\ Rule3(mutations, c) }

RECURSIVE Combine(_, _, _, _)
\* the assignments to the first n instances, instance by instance
Combine(gene, mutations, alleles, n) ==
  IF n = 0 THEN {<<>>}
  ELSE { Append(s, c) :
           s \in Combine(gene, mutations, alleles, n - 1),
           c \in Choices(gene, mutations, alleles[n]) }

\* CopyOrder with the inequality turned round
CopyOrder_Reversed(alleles, asg) ==
  \A i \in 1..Len(alleles) :
     alleles[i].cnt > 0 =>
       LET j == CHOOSE k \in 1..Len(alleles) :
                  /\ alleles[k].a = alleles[i].a
                  /\ alleles[k].cnt = alleles[i].cnt - 1
       IN asg[i].sel >= asg[j].sel

\* A[a, cnt] <= A[a, cnt - 1]
CopyOrder(alleles, asg) ==
  \A i \in 1..Len(alleles) :
     alleles[i].cnt > 0 =>
       LET j == CHOOSE k \in 1..Len(alleles) :
                  /\ alleles[k].a = alleles[i].a
                  /\ alleles[k].cnt = alleles[i].cnt - 1
       IN asg[i].sel <= asg[j].sel

\* the sum of A over the instances of a major key
SelectedUnder(alleles, asg, k) ==
  SumSeq([i \in 1..Len(alleles) |->
            IF MajorKey(alleles[i].a) = k THEN asg[i].sel ELSE 0])

\* CountMatches with <= for ==
CountMatches_AtMost(alleles, major_sol, asg) ==
  \A i \in 1..Len(major_sol.solution) :
     SelectedUnder(alleles, asg, major_sol.solution[i].key)
       <= major_sol.solution[i].cnt

\* for every item of major_sol.solution the sum equals its count
CountMatches(alleles, major_sol, asg) ==
  \A i \in 1..Len(major_sol.solution) :
     SelectedUnder(alleles, asg, major_sol.solution[i].key)
       = major_sol.solution[i].cnt

\* the feasible assignments of the model
Feasible(gene, mutations, major_sol, alleles) ==
  { asg \in Combine(gene, mutations, alleles, Len(alleles)) :
      CopyOrder(alleles, asg) /\ CountMatches(alleles, major_sol, asg) }

\* ---- the coverage constraints and the objective
\* constraints[m]: the copies of m the assignment models
MutExpr(gene, alleles, asg, m) ==
  SumSeq([i \in 1..Len(alleles) |->
            IF m \in alleles[i].muts
            THEN (IF m \in asg[i].P THEN 1 ELSE 0) * asg[i].sel
            ELSE IF has_coverage(gene, alleles[i].a.major, m.pos)
                 THEN (IF m \in asg[i].D THEN 1 ELSE 0) * asg[i].sel
                 ELSE 0])

\* N: the product of 1 - MADD[a][m] over the non-insertions added at p
NoneAdded(inst, c, p) ==
  IF \E m \in c.D : m.pos = p /\ OpPrefix(m) # "INS" THEN 0 ELSE 1

\* RefExpr that counts an instance whether its mutation is present or not
RefExpr_IgnoresPresent(gene, alleles, asg, p) ==
  SumSeq([i \in 1..Len(alleles) |->
            IF ~has_coverage(gene, alleles[i].a.major, p) THEN 0
            ELSE LET pm == present_muts(alleles[i], p)
                 IN IF Cardinality(pm) = 1
                    THEN asg[i].sel
                    ELSE NoneAdded(alleles[i], asg[i], p) * asg[i].sel])

\* constraints[ref_m]: the copies that show the reference at position p
RefExpr(gene, alleles, asg, p) ==
  SumSeq([i \in 1..Len(alleles) |->
            IF ~has_coverage(gene, alleles[i].a.major, p) THEN 0
            ELSE LET pm == present_muts(alleles[i], p)
                 IN IF Cardinality(pm) = 1
                    THEN (1 - (IF (CHOOSE m \in pm : TRUE) \in asg[i].P
                               THEN 1 ELSE 0)) * asg[i].sel
                    ELSE NoneAdded(alleles[i], asg[i], p) * asg[i].sel])

\* the keys of constraints: the mutations and one reference marker for each
\* of their positions
ConstraintKeys(mutations) ==
  mutations \cup {RefMut(m.pos) : m \in mutations}

\* the value of error_vars[m], times SingleCopy:
\* expr + E == coverage[m] / single_copy
ErrorVar(gene, coverage, alleles, asg, m) ==
  coverage[m] - SingleCopy *
    (IF m.op = "_" THEN RefExpr(gene, alleles, asg, m.pos)
     ELSE MutExpr(gene, alleles, asg, m))

\* model.abssum(error_vars), times SingleCopy
AbsSum(gene, coverage, mutations, alleles, asg) ==
  LET ks == SortedMuts(ConstraintKeys(mutations))
  IN SumSeq([i \in 1..Len(ks) |->
               Abs(ErrorVar(gene, coverage, alleles, asg, ks[i]))])

\* sum of A[a] * (1 - v) over the MPRESENT variables
MissTerm(alleles, asg) ==
  SumSeq([i \in 1..Len(alleles) |->
            asg[i].sel * (Cardinality(alleles[i].muts) - Cardinality(asg[i].P))])

\* sum of v over the MADD variables
AddTerm(alleles, asg) ==
  SumSeq([i \in 1..Len(alleles) |-> Cardinality(asg[i].D)])

\* DirectObjective without the miss penalty
DirectObjective_NoMiss(gene, coverage, mutations, alleles, asg) ==
  AbsSum(gene, coverage, mutations, alleles, asg)
  + SingleCopy * ADD_PENALTY_FACTOR * AddTerm(alleles, asg)

\* the objective of every solver but scip, times SingleCopy
DirectObjective(gene, coverage, mutations, alleles, asg) ==
  AbsSum(gene, coverage, mutations, alleles, asg)
  + SingleCopy * MISS_PENALTY_FACTOR * MissTerm(alleles, asg)
  + SingleCopy * ADD_PENALTY_FACTOR * AddTerm(alleles, asg)

\* NonlinearObj without the factor A[a]
NonlinearObj_Ungated(alleles, asg) ==
  SingleCopy * MISS_PENALTY_FACTOR *
    SumSeq([i \in 1..Len(alleles) |->
              Cardinality(alleles[i].muts) - Cardinality(asg[i].P)])

\* nonlinear_obj of the scip branch, times SingleCopy
NonlinearObj(alleles, asg) ==
  SingleCopy * MISS_PENALTY_FACTOR *
    SumSeq([i \in 1..Len(alleles) |->
              asg[i].sel * (Cardinality(alleles[i].muts) - Cardinality(asg[i].P))])

\* the objective of the scip branch at the value w of the variable W
ScipObjective(gene, coverage, mutations, alleles, asg, w) ==
  AbsSum(gene, coverage, mutations, alleles, asg)
  + SingleCopy * ADD_PENALTY_FACTOR * AddTerm(alleles, asg)
  + w

\* the values W can take that matter: nonlinear_obj is never above WMax
WMax(alleles) ==
  SingleCopy * MISS_PENALTY_FACTOR *
    SumSeq([i \in 1..Len(alleles) |-> Cardinality(alleles[i].muts)])

\* the feasible points of the scip model: nonlinear_obj <= w
ScipPoints(alleles, feasible) ==
  { pt \in feasible \X (0..WMax(alleles)) : NonlinearObj(alleles, pt[1]) <= pt[2] }

MinOf(S) == CHOOSE v \in S : \A u \in S : v <= u

\* model.solve for every solver but scip: the optimal assignments and the
\* optimum
SolveDirect(gene, coverage, mutations, alleles, feasible) ==
  LET val == [asg \in feasible |->
                DirectObjective(gene, coverage, mutations, alleles, asg)]
      opt == MinOf({val[asg] : asg \in feasible})
  IN [opt |-> opt, best |-> {asg \in feasible : val[asg] = opt}]

\* model.solve for scip: the optimal assignments (without W) and the optimum
SolveScip(gene, coverage, mutations, alleles, feasible) ==
  LET pts == ScipPoints(alleles, feasible)
      val == [pt \in pts |->
                ScipObjective(gene, coverage, mutations, alleles, pt[1], pt[2])]
      opt == MinOf({val[pt] : pt \in pts})
  IN [opt |-> opt, best |-> {pt[1] : pt \in {q \in pts : val[q] = opt}}]

\* ---- the solution read back from the solver
\* the SolvedAllele of a selected instance
SolvedOf(inst, c) ==
  SolvedAllele(inst.a.major, inst.a.minor,
               inst.a.added \o SortedMuts(c.D),
               SortedMuts(inst.muts \ c.P))

\* the list solution: one SolvedAllele for every instance with A > 0
SolutionOf(alleles, asg) ==
  Flatten([i \in 1..Len(alleles) |->
             IF asg[i].sel <= 0 THEN <<>>
             ELSE <<SolvedOf(alleles[i], asg[i])>>])

MinorSolution(sc, sol, ms) ==
  [score |-> sc, solution |-> sol, major_solution |-> ms]

\* ------------------------------------------------------------ state
VARIABLES
  input,        \* the arguments of estimate_minor
  pc,           \* "start", "loop", "solve", "done" or "fault"
  alleles_list, \* the candidates of all major solutions
  mutations,    \* the mutations of all major solutions
  queue,        \* the sorted major solutions not evaluated yet
  lp,           \* the model built for the head of queue
  minor_sols,   \* the MinorSolutions collected so far
  solved,       \* for every element of minor_sols, the model and the
                \* variable values the solver returned for it
  fault         \* the exception that left estimate_minor, or "none"

vars ==
  <<input, pc, alleles_list, mutations, queue, lp, minor_sols, solved, fault>>

NoModel == [major_sol |-> MajorSolution(<<>>, 0), alleles |-> <<>>, feasible |-> {}]

Init ==
  /\ input \in Inputs
  /\ pc = "start"
  /\ alleles_list = <<>>
  /\ mutations = {}
  /\ queue = <<>>
  /\ lp = NoModel
  /\ minor_sols = <<>>
  /\ solved = <<>>
  /\ fault = "none"

\* estimate_minor up to the loop over the sorted major solutions
Prepare ==
  /\ pc = "start"
  /\ alleles_list' = AllelesList(input.gene, input.major_sols)
  /\ mutations' = MutationsOf(input.gene, input.major_sols)
  /\ queue' = SortedSols(input.major_sols)
  /\ pc' = "loop"
  /\ UNCHANGED <<input, lp, minor_sols, solved, fault>>

\* solve_minor_model up to the objective: the model of the next major
\* solution is built, or a fault leaves solve_minor_model and estimate_minor
Build ==
  /\ pc = "loop"
  /\ queue # <<>>
  /\ LET major_sol == Head(queue)
         faults == BuildFaults(input.gene, alleles_list, input.coverage,
                               major_sol, mutations)
     IN IF faults # {}
        THEN /\ fault' \in faults
             /\ pc' = "fault"
             /\ lp' = lp
        ELSE LET alleles == AllelesDict(input.gene, alleles_list, major_sol)
             IN /\ lp' = [major_sol |-> major_sol,
                          alleles |-> alleles,
                          feasible |-> Feasible(input.gene, mutations,
                                                major_sol, alleles)]
                /\ pc' = "solve"
                /\ fault' = fault
  /\ UNCHANGED <<input, alleles_list, mutations, queue, minor_sols, solved>>

\* model.solve of the solver input.solver
SolveModel ==
  IF input.solver = "scip"
  THEN SolveScip(input.gene, input.coverage, mutations, lp.alleles, lp.feasible)
  ELSE SolveDirect(input.gene, input.coverage, mutations, lp.alleles, lp.feasible)

\* the rest of solve_minor_model: the solver returns one optimal assignment
\* and the MinorSolution read from it is appended, or it raises
\* NoSolutionsError and nothing is appended
Solve ==
  /\ pc = "solve"
  /\ IF lp.feasible = {}
     THEN UNCHANGED <<minor_sols, solved>>
     ELSE LET res == SolveModel
          IN \E asg \in res.best :
               /\ minor_sols' =
                    Append(minor_sols,
                           MinorSolution(res.opt, SolutionOf(lp.alleles, asg),
                                         lp.major_sol))
               /\ solved' = Append(solved, [alleles |-> lp.alleles, values |-> asg])
  /\ queue' = Tail(queue)
  /\ pc' = "loop"
  /\ UNCHANGED <<input, alleles_list, mutations, lp, fault>>

\* return minor_sols
Return ==
  /\ pc = "loop"
  /\ queue = <<>>
  /\ pc' = "done"
  /\ UNCHANGED <<input, alleles_list, mutations, queue, lp, minor_sols, solved, fault>>

Next == Prepare \/ Build \/ Solve \/ Return

Spec == Init /\ [][Next]_vars

TypeOK ==
  /\ pc \in {"start", "loop", "solve", "done", "fault"}
  /\ fault \in {"none", "KeyError", "AssertionError"}
  /\ Len(minor_sols) = Len(solved)

\* ------------------------------------------------------------ properties
\* the indices of the instances with A > 0, in the order of the dictionary A
SelectedIdx(alleles, asg) ==
  SelectSeq([i \in 1..Len(alleles) |-> i], LAMBDA i : asg[i].sel > 0)

\* C1: in every returned MinorSolution, for every key of its MajorSolution
\* with count n exactly n instances under that key have A > 0, and the
\* solution list holds exactly their n SolvedAlleles.
C1_ExactCount ==
  \A i \in 1..Len(minor_sols) :
    LET ms == minor_sols[i].major_solution
        al == solved[i].alleles
        v == solved[i].values
        idx == SelectedIdx(al, v)
        sol == minor_sols[i].solution
    IN /\ Len(sol) = Len(idx)
       /\ \A p \in 1..Len(sol) :
            sol[p].major = al[idx[p]].a.major /\ sol[p].minor = al[idx[p]].a.minor
       /\ \A j \in 1..Len(ms.solution) :
            /\ Cardinality({k \in 1..Len(al) :
                              MajorKey(al[k].a) = ms.solution[j].key /\ v[k].sel > 0})
                 = ms.solution[j].cnt
            /\ Cardinality({p \in 1..Len(sol) :
                              MajorKey(al[idx[p]].a) = ms.solution[j].key})
                 = ms.solution[j].cnt

\* a key with two minor alleles and count 2 whose two copies were solved
C1_Witness ==
  \E i \in 1..Len(minor_sols) :
    /\ minor_sols[i].major_solution.solution = <<Item(K1, 2)>>
    /\ Len(minor_sols[i].solution) = 2
    /\ minor_sols[i].solution[1].minor # minor_sols[i].solution[2].minor

\* C2: in every feasible assignment of the built model the selected copy
\* indices of a base candidate are 0 .. k-1 for some k.
C2_ContiguousPrefix ==
  pc = "solve" =>
    \A asg \in lp.feasible :
      \A i \in 1..Len(lp.alleles) :
        LET S == {lp.alleles[k].cnt : k \in {k \in 1..Len(lp.alleles) :
                    lp.alleles[k].a = lp.alleles[i].a /\ asg[k].sel = 1}}
        IN S = 0..(Cardinality(S) - 1)

\* a feasible assignment that selects copy 0 and copy 1 of one candidate
C2_Witness ==
  /\ pc = "solve"
  /\ \E asg \in lp.feasible :
       \E i \in 1..Len(lp.alleles) :
         lp.alleles[i].cnt = 1 /\ asg[i].sel = 1

\* C3: for every selected instance the number of its functional mutations
\* in the missing tuple is 0 or the number of all its functional mutations.
C3_AllOrNothing ==
  \A i \in 1..Len(minor_sols) :
    LET al == solved[i].alleles
        idx == SelectedIdx(al, solved[i].values)
        sol == minor_sols[i].solution
    IN \A p \in 1..Len(sol) :
         LET f == {m \in al[idx[p]].muts : is_functional(m)}
             n == Cardinality(Range(sol[p].missing) \cap f)
         IN n = 0 \/ n = Cardinality(f)

\* a returned allele with two functional mutations and a missing neutral one
C3_Witness ==
  \E i \in 1..Len(minor_sols) :
    \E p \in 1..Len(minor_sols[i].solution) :
      LET e == minor_sols[i].solution[p]
      IN /\ e.major = "2"
         /\ input.gene.alleles["2"].func_muts = {MF, MG}
         /\ e.missing # <<>>

\* C4: no mutation at a position the allele's major allele has no coverage
\* for is present in a returned SolvedAllele or in its added tuple.
C4_NoUncoveredMutation ==
  \A i \in 1..Len(minor_sols) :
    \A p \in 1..Len(minor_sols[i].solution) :
      LET e == minor_sols[i].solution[p]
          inst == solved[i].alleles[SelectedIdx(solved[i].alleles,
                                                solved[i].values)[p]]
      IN \A m \in Mutations :
           ~has_coverage(input.gene, e.major, m.pos) =>
             /\ ~(m \in inst.muts /\ m \notin Range(e.missing))
             /\ m \notin Range(e.added)

\* the models of the sorted major solutions that are feasible
FeasibleSols ==
  SelectSeq(SortedSols(input.major_sols),
            LAMBDA ms :
              Feasible(input.gene, mutations, ms,
                       AllelesDict(input.gene, alleles_list, ms)) # {})

\* C5: for every list of major solutions (also with different sets of keys)
\* estimate_minor raises no fault and returns one MinorSolution for each
\* feasible major solution, in sorted order.  Stated for the genes with
\* coverage everywhere and apart from the assertion faults.
C5_ReturnsFeasibleInOrder ==
  (input.gene.nocov = {} /\ fault # "AssertionError") =>
    /\ fault = "none"
    /\ pc = "done" =>
         /\ Len(minor_sols) = Len(FeasibleSols)
         /\ \A i \in 1..Len(minor_sols) :
              minor_sols[i].major_solution = FeasibleSols[i]

\* every major solution of the list has the same set of keys
SameKeys ==
  \A i, j \in 1..Len(input.major_sols) :
    {input.major_sols[i].solution[k].key :
       k \in 1..Len(input.major_sols[i].solution)}
    = {input.major_sols[j].solution[k].key :
         k \in 1..Len(input.major_sols[j].solution)}

\* C6: an assertion failing in one model build does not leave
\* estimate_minor: the other major solutions are evaluated and the partial
\* list is returned.  Stated for the lists whose major solutions have the
\* same keys.
C6_AssertionIsolated ==
  SameKeys => ~(pc = "fault" /\ fault = "AssertionError")

\* C10: the build never reads a MADD variable that was not created: no
\* KeyError other than the one of the max_cn lookup ends a build.
C10_NoMADDLookupFault ==
  (pc = "fault" /\ fault = "KeyError") =>
     MaxCnKeyError(alleles_list, Head(queue))

\* C7: with the default weights every returned score is >= 0, and a score
\* of 0 means an exact match: nothing missing, nothing added beyond what the
\* major solution added, and every error term 0.
C7_ZeroScoreIsExact ==
  \A i \in 1..Len(minor_sols) :
    LET al == solved[i].alleles
        v == solved[i].values
        idx == SelectedIdx(al, v)
        sol == minor_sols[i].solution
    IN /\ minor_sols[i].score >= 0
       /\ minor_sols[i].score = 0 =>
            /\ \A p \in 1..Len(sol) :
                 sol[p].missing = <<>> /\ sol[p].added = al[idx[p]].a.added
            /\ \A m \in ConstraintKeys(mutations) :
                 ErrorVar(input.gene, input.coverage, al, v, m) = 0

\* a score of 0 for a returned allele that is defined by a mutation
C7_Witness ==
  \E i \in 1..Len(minor_sols) :
    /\ minor_sols[i].score = 0
    /\ \E p \in 1..Len(minor_sols[i].solution) :
         minor_sols[i].solution[p].minor = "1B"

\* Scenario B for the major solution ms and the mutation M: one key of
\* count 1 with one candidate, defined by M alone at a covered position; no
\* reads of M and the reads of one copy of the reference
ScenarioB(ms, M) ==
  /\ Len(input.major_sols) = 1
  /\ Len(ms.solution) = 1
  /\ ms.solution[1].cnt = 1
  /\ LET cands == ItemCandidates(input.gene, ms.solution[1])
     IN /\ Len(cands) = 1
        /\ DefiningMuts(input.gene, cands[1]) = {M}
        /\ has_coverage(input.gene, cands[1].major, M.pos)
  /\ input.coverage[M] = 0
  /\ input.coverage[RefMut(M.pos)] = SingleCopy

\* C8 as claimed: in Scenario B the returned solution has M in the missing
\* tuple of the candidate and the score of one miss penalty.
C8_ScenarioB_Missing ==
  \A i \in 1..Len(minor_sols) :
    \A M \in Mutations :
      ScenarioB(minor_sols[i].major_solution, M) =>
        /\ Len(minor_sols[i].solution) = 1
        /\ minor_sols[i].solution[1].missing = <<M>>
        /\ minor_sols[i].score = SingleCopy * MISS_PENALTY_FACTOR

\* C8 as amended: in Scenario B the candidate is selected and the optimum is
\* at most one miss penalty; keeping M present is always an optimal
\* assignment, and marking M missing (no residual error, one miss penalty)
\* is optimal exactly when M is a neutral mutation that is not an insertion.
C8_ScenarioB_Tie ==
  \A M \in Mutations :
    (pc = "solve" /\ ScenarioB(lp.major_sol, M)) =>
      LET res == SolveModel
          present == <<Value(1, {M}, {})>>
          missing == <<Value(1, {}, {})>>
      IN /\ res.opt <= SingleCopy * MISS_PENALTY_FACTOR
         /\ \A asg \in res.best : asg[1].sel = 1
         /\ present \in res.best
         /\ missing \in res.best <=> (~is_functional(M) /\ OpPrefix(M) # "INS")
         /\ missing \in res.best =>
              /\ res.opt = SingleCopy * MISS_PENALTY_FACTOR
              /\ AbsSum(input.gene, input.coverage, mutations, lp.alleles, missing) = 0

\* Scenario B with a neutral substitution, solved
C8_Witness ==
  /\ pc = "solve"
  /\ ScenarioB(lp.major_sol, MN)
  /\ lp.feasible # {}

\* C9: the scip objective with the variable W and the direct objective have
\* the same feasibility, the same optimum and the same optimal assignments
\* to A, MPRESENT and MADD.
C9_LinearizationEquivalent ==
  pc = "solve" =>
    /\ (ScipPoints(lp.alleles, lp.feasible) = {}) <=> (lp.feasible = {})
    /\ lp.feasible # {} =>
         LET d == SolveDirect(input.gene, input.coverage, mutations,
                              lp.alleles, lp.feasible)
             w == SolveScip(input.gene, input.coverage, mutations,
                            lp.alleles, lp.feasible)
         IN d.opt = w.opt /\ d.best = w.best

\* a model with several optimal assignments, one of them with a missing
\* mutation, so that W is positive at the optimum
C9_Witness ==
  /\ pc = "solve"
  /\ lp.feasible # {}
  /\ LET w == SolveScip(input.gene, input.coverage, mutations,
                        lp.alleles, lp.feasible)
     IN /\ Cardinality(w.best) >= 2
        /\ \E asg \in w.best : MissTerm(lp.alleles, asg) > 0

====
